---- MODULE Spec2Model ----
(***************************************************************************)
(* Model of GPUResourceMonitor (src/main.py): the timer slot               *)
(* update_metrics, the SQLite sample store behind store_data, the alert    *)
(* path get_gpu_metrics/add_notification, the in-memory plotting window    *)
(* and the history query load_historical_data.                             *)
(*                                                                         *)
(* Time is an integer count of clock units, Res units to the second, so    *)
(* that strftime('%Y-%m-%d %H:%M:%S') loses the sub-second part.           *)
(* An exception that leaves a slot is not caught anywhere in main.py; what *)
(* the host does with it depends on the PyQt5 build and on sys.excepthook  *)
(* (print and go on, or qFatal/abort), so both outcomes are modelled.      *)
(***************************************************************************)
EXTENDS Integers, Sequences, FiniteSets, TLC

VARIABLES
    status,            \* "Running" | "Aborted" (the host died on an exception) |
                       \* "Closed" (closeEvent ran: window and connection closed,
                       \* the event loop about to leave) | "Exited"
    clock,             \* wall clock, in units of 1/Res second
    start_time,        \* self.start_time
    time_stamps,       \* self.time_stamps
    gpu_usage_data,    \* self.gpu_usage_data
    cpu_usage_data,    \* self.cpu_usage_data
    ram_usage_data,    \* self.ram_usage_data
    resource_usage,    \* committed rows of table resource_usage
    pending,           \* rows inserted on self.conn and not yet committed
    notifications_text,\* self.notifications_text : the appended alert messages
    label,             \* self.label text: the readings it was built from
    indicators,        \* colours of gpu/cpu/ram indicator
    start_date_edit,   \* the two QDateTimeEdit values, in whole seconds
    end_date_edit,
    hist_pc,           \* position of load_historical_data: "idle", "executed"
                       \* (SELECT run, rows not fetched yet) or a modal dialog
    cursor,            \* rows self.cursor holds for fetchall
    hist_rows,         \* rows fetched by the query that is in progress / last ran
    history_plot,      \* what history_figure shows
    dialogs,           \* QMessageBox titles shown so far
    queries,           \* number of "Load Data" clicks handled (history)
    ticks,             \* number of timer ticks delivered (history)
    ok_ticks,          \* number of ticks that ran to the end (history)
    last,              \* what the latest tick was given (history)
    appended,          \* every value ever appended to each window list (history)
    samples            \* arguments of every store_data call that returned (history)

vars == <<status, clock, start_time, time_stamps, gpu_usage_data, cpu_usage_data,
          ram_usage_data, resource_usage, pending, notifications_text, label,
          indicators, hist_pc, hist_rows, history_plot, dialogs, queries, ticks,
          ok_ticks, last, appended, samples, start_date_edit, end_date_edit,
          cursor>>

---------------------------------------------------------------------------
(* Bounds of the model *)

\* max_points of update_metrics is 100 in the source; the model scales the
\* window down so that eviction happens within a few ticks.
max_points == 2
\* timer ticks delivered in a run
MaxTicks == 3
\* ticks of a run in which a call raises
MaxFaults == 1
\* "Load Data" clicks in a run
MaxQueries == 1
\* clock units per second
Res == 2

(* Program constants *)
GPU_TEMP_THRESHOLD == 80
GPU_UTIL_THRESHOLD == 90

\* wall clock when the window is constructed: second 8 and one unit, so
\* that the seconds text goes from "09" to "10" during a run
StartClock == 8 * Res + 1

\* what a read that is not reached, or that raises, leaves behind
NoReading == [util |-> -1, temp |-> -1]
NoValue == 0 - 1

(* Readings the providers return *)
GpuNormal == [util |-> 50, temp |-> 60]
GpuReadings == { GpuNormal, [util |-> 95, temp |-> 60] }
\* readings around the two alert thresholds
GpuGrid == { [util |-> u, temp |-> t] : u \in {90, 91}, t \in {80, 81} }
CpuReadings == {55}
RamReadings == {40}

\* time between two timer deliveries: the 1000 ms period, or a delivery
\* that comes early after a late one
TimerGaps == {Res - 1, Res}
\* readings on both sides of every threshold of update_indicators
SeverityGrid == {[util |-> u, temp |-> t] : u \in {70, 71, 90, 91},
                                           t \in {70, 71, 80, 81}}
LoadGrid == {70, 71, 90, 91}
\* time that passes inside a tick between get_gpu_metrics and store_data
Delays == {0, 1}
\* the same gaps as the wall clock shows them when it may be set back by a
\* second between two deliveries (datetime.now() is local wall time: clock
\* adjustment, end of daylight saving time)
WallGaps == TimerGaps \cup {0 - Res}

---------------------------------------------------------------------------
(* Text timestamps *)

\* datetime.strftime('%Y-%m-%d %H:%M:%S'): the instant cut to whole seconds,
\* written as zero-padded decimal digits (here the two digits of the seconds).
SecText(s) == << s \div 10, s % 10 >>

strftime(t) == SecText(t \div Res)

\* datetime.strptime(text, '%Y-%m-%d %H:%M:%S')
strptime(txt) == txt[1] * 10 + txt[2]

\* SQLite compares TEXT values bytewise, left to right
RECURSIVE TextLE(_, _)
TextLE(a, b) ==
    IF a = <<>> THEN TRUE
    ELSE IF b = <<>> THEN FALSE
    ELSE IF a[1] < b[1] THEN TRUE
    ELSE IF a[1] > b[1] THEN FALSE
    ELSE TextLE(Tail(a), Tail(b))

---------------------------------------------------------------------------
(* Control flow of update_metrics *)

\* The statements of update_metrics in execution order.
Steps == << "get_gpu_metrics", "get_cpu_metrics", "label", "ts_append",
            "gpu_read", "gpu_append", "cpu_read", "cpu_append",
            "ram_read", "ram_append", "store_execute", "store_commit",
            "update_indicators", "truncate" >>

\* The calls that can raise: provider reads and the two database calls.
ReadFaults == {"get_gpu_metrics", "get_cpu_metrics", "gpu_read", "cpu_read", "ram_read"}
GpuFaults == {"get_gpu_metrics", "gpu_read"}
StoreFaults == {"store_execute", "store_commit"}
Faults == ReadFaults \cup StoreFaults

Pos(step) == CHOOSE i \in 1..Len(Steps) : Steps[i] = step

\* No try/except anywhere: the statement that raises and everything after
\* it is skipped, everything before it has taken effect.
Done(fault, step) == fault = "none" \/ Pos(step) < Pos(fault)

---------------------------------------------------------------------------
(* Alerts *)

\* the thresholds taken as inclusive
IsAlert_inclusive(g) == g.temp >= GPU_TEMP_THRESHOLD \/ g.util >= GPU_UTIL_THRESHOLD

\* the test of get_gpu_metrics before add_notification
IsAlert(g) == g.temp > GPU_TEMP_THRESHOLD \/ g.util > GPU_UTIL_THRESHOLD

\* one message per call, stamped with datetime.now() at second resolution
add_notification(log, t, g) ==
    Append(log, [time |-> strftime(t), temp |-> g.temp, util |-> g.util])

\* get_gpu_metrics reads the GPU on its own and alerts on that reading
get_gpu_metrics(log, t, g) ==
    IF IsAlert(g) THEN add_notification(log, t, g) ELSE log

---------------------------------------------------------------------------
(* Indicators *)

\* the upper thresholds taken as inclusive
gpu_color_inclusive(gpu_util, gpu_temp) ==
    IF gpu_util >= 90 \/ gpu_temp >= 80 THEN "red"
    ELSE IF gpu_util > 70 \/ gpu_temp > 70 THEN "yellow"
    ELSE "green"

gpu_color(gpu_util, gpu_temp) ==
    IF gpu_util > 90 \/ gpu_temp > 80 THEN "red"
    ELSE IF gpu_util > 70 \/ gpu_temp > 70 THEN "yellow"
    ELSE "green"

cpu_color(cpu_util) ==
    IF cpu_util > 90 THEN "red"
    ELSE IF cpu_util > 70 THEN "yellow"
    ELSE "green"

ram_color(ram_util) ==
    IF ram_util > 90 THEN "red"
    ELSE IF ram_util > 70 THEN "yellow"
    ELSE "green"

\* the CPU and RAM indicators fed from each other's reading
update_indicators_crossed(gpu_util, gpu_temp, cpu_util, ram_util) ==
    [gpu |-> gpu_color(gpu_util, gpu_temp),
     cpu |-> cpu_color(ram_util),
     ram |-> ram_color(cpu_util)]

update_indicators(gpu_util, gpu_temp, cpu_util, ram_util) ==
    [gpu |-> gpu_color(gpu_util, gpu_temp),
     cpu |-> cpu_color(cpu_util),
     ram |-> ram_color(ram_util)]

---------------------------------------------------------------------------
(* Plotting window *)

\* s[:n] in place of s[-n:]
FirstN(s, n) == IF Len(s) <= n THEN s ELSE SubSeq(s, 1, n)

\* Python's s[-n:] for n >= 1
LastN(s, n) == IF Len(s) <= n THEN s ELSE SubSeq(s, Len(s) - n + 1, Len(s))

\* "Keep only the last N data points": one test, on time_stamps, guards the
\* slicing of all four lists.
Truncate(ts, s) == IF Len(ts) > max_points THEN LastN(s, max_points) ELSE s

---------------------------------------------------------------------------
(* Sample store *)

\* the parameter tuple of the INSERT; REAL columns keep the numeric value
Row(t, g, cpu_util, ram_util) ==
    [timestamp |-> strftime(t), gpu_util |-> g.util, gpu_temp |-> g.temp,
     cpu_util |-> cpu_util, ram_util |-> ram_util]

\* what a statement on self.conn sees: committed rows and its own open
\* transaction, in rowid order
Visible == resource_usage \o pending

\* SELECT timestamp, gpu_util, cpu_util, ram_util ... WHERE timestamp BETWEEN ? AND ?
Project(r) == [timestamp |-> r.timestamp, gpu_util |-> r.gpu_util,
               cpu_util |-> r.cpu_util, ram_util |-> r.ram_util]

\* bounds taken in either order
Between_either_order(txt, start_time_txt, end_time_txt) ==
    \/ TextLE(start_time_txt, txt) /\ TextLE(txt, end_time_txt)
    \/ TextLE(end_time_txt, txt) /\ TextLE(txt, start_time_txt)

\* an end bound that leaves out its own second
Between_open_end(txt, start_time_txt, end_time_txt) ==
    TextLE(start_time_txt, txt) /\ ~TextLE(end_time_txt, txt)

Between(txt, start_time_txt, end_time_txt) ==
    TextLE(start_time_txt, txt) /\ TextLE(txt, end_time_txt)

SelectBetween(rows, start_time_txt, end_time_txt) ==
    LET Test(r) == Between(r.timestamp, start_time_txt, end_time_txt)
        hit == SelectSeq(rows, Test)
    IN  [i \in 1..Len(hit) |-> Project(hit[i])]

---------------------------------------------------------------------------
(* State after construction *)

\* CREATE TABLE IF NOT EXISTS keeps what earlier runs stored in the file:
\* nothing, or a row of an earlier second
PriorRows == { <<>>,
               << [timestamp |-> SecText(StartClock \div Res - 1), gpu_util |-> 95,
                   gpu_temp |-> 60, cpu_util |-> 55, ram_util |-> 40] >> }

Init ==
    /\ status = "Running"
    /\ clock = StartClock
    /\ start_time = StartClock
    /\ time_stamps = <<>>
    /\ gpu_usage_data = <<>>
    /\ cpu_usage_data = <<>>
    /\ ram_usage_data = <<>>
    /\ resource_usage \in PriorRows
    /\ pending = <<>>
    /\ notifications_text = <<>>
    /\ label = "Initializing monitoring..."
    /\ indicators = [gpu |-> "green", cpu |-> "green", ram |-> "green"]
    /\ hist_pc = "idle"
    /\ hist_rows = <<>>
    /\ history_plot = <<>>
    /\ dialogs = <<>>
    /\ queries = 0
    /\ ticks = 0
    /\ ok_ticks = 0
    /\ last = [fault |-> "none", g1 |-> NoReading, during |-> "idle"]
    /\ appended = [ts |-> <<>>, gpu |-> <<>>, cpu |-> <<>>, ram |-> <<>>]
    /\ samples = <<>>
    \* QDateTime.currentDateTime().addDays(-1) and currentDateTime(): the
    \* earliest second the text can show, and the second of construction
    /\ start_date_edit = 0
    /\ end_date_edit = StartClock \div Res
    /\ cursor = <<>>

---------------------------------------------------------------------------
(* The timer slot *)

\* events delivered at any statement of a handler
InEventLoop_anywhere == TRUE

\* The GUI thread delivers timer and button events only from an event loop:
\* the main one between handlers, or the one a modal QMessageBox runs while
\* it is open.  update_metrics has no such call; load_historical_data has
\* none between its SELECT and its fetchall.
InEventLoop == hist_pc # "executed"

\* a store_data that also runs when a provider read raised
store_data_after_failed_read(fault, committed, open, row) ==
    IF fault = "store_execute" THEN [committed |-> committed, open |-> open]
    ELSE IF fault = "store_commit"
         THEN [committed |-> committed, open |-> Append(open, row)]
    ELSE [committed |-> committed \o Append(open, row), open |-> <<>>]

\* store_data: INSERT on the shared cursor, then conn.commit().  A commit
\* writes every row of the open transaction; a commit that raises leaves the
\* inserted row in the open transaction of self.conn.
store_data(fault, committed, open, row) ==
    IF ~Done(fault, "store_execute") THEN [committed |-> committed, open |-> open]
    ELSE IF ~Done(fault, "store_commit")
         THEN [committed |-> committed, open |-> Append(open, row)]
    ELSE [committed |-> committed \o Append(open, row), open |-> <<>>]

\* a list after the tick: appended to if the append statement was reached,
\* sliced if the truncation was reached
WindowAfter(fault, step, ts, s, v) ==
    LET s1 == IF Done(fault, step) THEN Append(s, v) ELSE s
    IN  IF Done(fault, "truncate") THEN Truncate(ts, s1) ELSE s1

\* One delivery of timer.timeout to update_metrics.
\*   fault   the call that raises in this tick, or "none"
\*   crash   whether the host aborts on the escaped exception
\*   g1, c1  readings taken inside get_gpu_metrics / get_cpu_metrics
\*   g2, c2, r2  readings taken by update_metrics itself
\*   dt      time since the previous event; d time between alert and insert
update_metrics(fault, crash, g1, c1, g2, c2, r2, dt, d) ==
    LET t0 == clock + dt
        t1 == t0 + d
        ts1 == IF Done(fault, "ts_append")
               THEN Append(time_stamps, t0 - start_time) ELSE time_stamps
        db == store_data(fault, resource_usage, pending, Row(t1, g2, c2, r2))
        aborted == fault # "none" /\ crash
    IN  /\ status \in {"Running", "Closed"}
        /\ InEventLoop
        /\ ticks < MaxTicks
        /\ fault # "none" => ticks - ok_ticks < MaxFaults
        \* on a closed connection cursor.execute raises ProgrammingError
        /\ status = "Closed" => fault \in ReadFaults \cup {"store_execute"}
        /\ ticks' = ticks + 1
        /\ ok_ticks' = IF fault = "none" THEN ok_ticks + 1 ELSE ok_ticks
        /\ last' = [fault |-> fault, g1 |-> g1, during |-> hist_pc]
        /\ clock' = t1
        /\ notifications_text' =
              IF Done(fault, "get_gpu_metrics")
              THEN get_gpu_metrics(notifications_text, t0, g1)
              ELSE notifications_text
        /\ label' = IF Done(fault, "label") THEN [gpu |-> g1, cpu |-> c1] ELSE label
        /\ time_stamps' = WindowAfter(fault, "ts_append", ts1, time_stamps, t0 - start_time)
        /\ gpu_usage_data' = WindowAfter(fault, "gpu_append", ts1, gpu_usage_data, g2.util)
        /\ cpu_usage_data' = WindowAfter(fault, "cpu_append", ts1, cpu_usage_data, c2)
        /\ ram_usage_data' = WindowAfter(fault, "ram_append", ts1, ram_usage_data, r2)
        /\ appended' =
              [ts  |-> IF Done(fault, "ts_append")
                       THEN Append(appended.ts, t0 - start_time) ELSE appended.ts,
               gpu |-> IF Done(fault, "gpu_append")
                       THEN Append(appended.gpu, g2.util) ELSE appended.gpu,
               cpu |-> IF Done(fault, "cpu_append")
                       THEN Append(appended.cpu, c2) ELSE appended.cpu,
               ram |-> IF Done(fault, "ram_append")
                       THEN Append(appended.ram, r2) ELSE appended.ram]
        /\ samples' = IF fault = "none"
                       THEN Append(samples, [t |-> t1, gpu_util |-> g2.util,
                                             gpu_temp |-> g2.temp, cpu_util |-> c2,
                                             ram_util |-> r2])
                       ELSE samples
        /\ resource_usage' = db.committed
        \* a process that dies takes its open transaction with it
        /\ pending' = IF aborted THEN <<>> ELSE db.open
        /\ indicators' = IF Done(fault, "update_indicators")
                         THEN update_indicators(g2.util, g2.temp, c2, r2)
                         ELSE indicators
        \* nothing stops the timer: a timeout that is due when the window is
        \* closed is still delivered, then the event loop leaves
        /\ status' = IF aborted THEN "Aborted"
                     ELSE IF status = "Closed" THEN "Exited" ELSE status
        \* the INSERT runs on the cursor the query uses and replaces its rows
        /\ cursor' = IF Done(fault, "store_execute") \/ fault = "store_execute"
                     THEN <<>> ELSE cursor
        /\ UNCHANGED <<start_time, hist_pc, hist_rows, history_plot, dialogs, queries,
                       start_date_edit, end_date_edit>>

\* the readings a tick can be given: a call that is never reached, or that
\* raises, yields no value
Attempted(fault, step, values, none) ==
    IF Done(fault, step) THEN values ELSE {none}

\* the ticks an environment can deliver: F the calls that may raise,
\* G1 and G2 the GPU readings of get_gpu_metrics and of update_metrics,
\* C and R the CPU and RAM readings, Gaps and Ds the timing
TickOf(F, G1, G2, C, R, Gaps, Ds) ==
    \E fault \in F, crash \in BOOLEAN, dt \in Gaps, d \in Ds :
      \E g1 \in Attempted(fault, "get_gpu_metrics", G1, NoReading),
         c1 \in Attempted(fault, "get_cpu_metrics", C, NoValue),
         g2 \in Attempted(fault, "gpu_read", G2, NoReading),
         c2 \in Attempted(fault, "cpu_read", C, NoValue),
         r2 \in Attempted(fault, "ram_read", R, NoValue) :
        /\ fault = "none" => ~crash
        /\ update_metrics(fault, crash, g1, c1, g2, c2, r2, dt, d)

TickWith(F, G1, G2, Gaps, Ds) ==
    TickOf(F, G1, G2, CpuReadings, RamReadings, Gaps, Ds)

\* every call may raise; ticks arrive on time
Tick == TickWith(Faults \cup {"none"}, GpuReadings, GpuReadings, {Res}, {0})

---------------------------------------------------------------------------
(* The history query *)

\* seconds the user can put into start_date_edit / end_date_edit
QuerySeconds == {9, 10, 11}

\* the lists handed to the three history plots
PlotOf(rows) ==
    [timestamps |-> [i \in 1..Len(rows) |-> strptime(rows[i].timestamp)],
     gpu_data   |-> [i \in 1..Len(rows) |-> rows[i].gpu_util],
     cpu_data   |-> [i \in 1..Len(rows) |-> rows[i].cpu_util],
     ram_data   |-> [i \in 1..Len(rows) |-> rows[i].ram_util]]

\* a statement that commits the open transaction before it runs
execute_select_committing(committed, open) ==
    [committed |-> committed \o open, open |-> <<>>]

\* what cursor.execute of a SELECT leaves of the connection's rows: a query
\* neither commits nor rolls back the transaction an earlier INSERT opened
execute_select(committed, open) ==
    [committed |-> committed, open |-> open]

\* "Load Data" clicked with start and end in the two date edits: the
\* SELECT runs on the shared cursor.
load_historical_data(start, end) ==
    /\ status = "Running"
    /\ hist_pc = "idle"
    /\ queries < MaxQueries
    /\ start_date_edit' = start
    /\ end_date_edit' = end
    /\ cursor' = SelectBetween(Visible, SecText(start), SecText(end))
    /\ resource_usage' = execute_select(resource_usage, pending).committed
    /\ pending' = execute_select(resource_usage, pending).open
    /\ hist_pc' = "executed"
    /\ UNCHANGED <<status, clock, start_time, time_stamps, gpu_usage_data,
                   cpu_usage_data, ram_usage_data,
                   notifications_text, label, indicators, hist_rows,
                   history_plot, dialogs, queries, ticks, ok_ticks, last,
                   appended, samples>>

\* the warning kept for a range that lacks more than one row
IsPartial_lenient(actual_count, expected_count) == actual_count + 1 < expected_count

\* the warning is for fewer rows than seconds between the two bounds
IsPartial(actual_count, expected_count) == actual_count < expected_count

\* The rest of the handler: fetchall, then on no rows or on fewer rows than
\* expected a modal QMessageBox opens (the event loop keeps delivering timer
\* ticks while it is open), else the rows are plotted.
fetchall ==
    LET rows == cursor
        expected_count == end_date_edit - start_date_edit
        actual_count == Len(rows)
    IN  /\ status = "Running"
        /\ hist_pc = "executed"
        /\ queries' = queries + 1
        /\ cursor' = <<>>
        /\ hist_rows' = rows
        /\ IF rows = <<>>
           THEN /\ dialogs' = Append(dialogs, "No Data Available")
                /\ hist_pc' = "nodata_dialog"
                /\ UNCHANGED history_plot
           ELSE IF IsPartial(actual_count, expected_count)
           THEN /\ dialogs' = Append(dialogs, "Partial Data")
                /\ hist_pc' = "partial_dialog"
                /\ UNCHANGED history_plot
           ELSE /\ history_plot' = PlotOf(rows)
                /\ hist_pc' = "idle"
                /\ UNCHANGED dialogs
        /\ UNCHANGED <<status, clock, start_time, time_stamps, gpu_usage_data,
                       cpu_usage_data, ram_usage_data, resource_usage, pending,
                       notifications_text, label, indicators, ticks, ok_ticks,
                       last, appended, samples, start_date_edit, end_date_edit>>

LoadData == \E start, end \in QuerySeconds : load_historical_data(start, end)

\* the user closes the message box: "No Data Available" returns, "Partial
\* Data" goes on to plot the rows fetched before the box opened
DismissDialog ==
    /\ status = "Running"
    /\ hist_pc \in {"nodata_dialog", "partial_dialog"}
    /\ hist_pc' = "idle"
    /\ history_plot' = IF hist_pc = "partial_dialog" THEN PlotOf(hist_rows)
                       ELSE history_plot
    /\ UNCHANGED <<status, clock, start_time, time_stamps, gpu_usage_data,
                   cpu_usage_data, ram_usage_data, resource_usage, pending,
                   notifications_text, label, indicators, hist_rows, dialogs,
                   queries, ticks, ok_ticks, last, appended, samples,
                   start_date_edit, end_date_edit, cursor>>

---------------------------------------------------------------------------
(* Shutdown *)

\* closeEvent: conn.close() drops an open transaction; the window is gone
closeEvent ==
    /\ status = "Running"
    /\ hist_pc = "idle"
    /\ status' = "Closed"
    /\ pending' = <<>>
    /\ UNCHANGED <<clock, start_time, time_stamps, gpu_usage_data,
                   cpu_usage_data, ram_usage_data, resource_usage,
                   notifications_text, label, indicators, hist_pc, hist_rows,
                   history_plot, dialogs, queries, ticks, ok_ticks, last,
                   appended, samples, start_date_edit, end_date_edit, cursor>>

---------------------------------------------------------------------------
(* The sampler under faults *)
Next == Tick \/ closeEvent

Spec == Init /\ [][Next]_vars

(* The alert path around its thresholds *)
AlertTick == TickWith({"none", "get_gpu_metrics", "gpu_read"}, GpuGrid, {GpuNormal},
                      {Res}, Delays)

NextAlert == AlertTick \/ closeEvent

SpecAlert == Init /\ [][NextAlert]_vars

(* The store and the history query *)
SampleTick == TickWith({"none", "store_commit"}, {GpuNormal}, {GpuNormal},
                       TimerGaps, {0})

NextHistory == SampleTick \/ LoadData \/ fetchall \/ DismissDialog \/ closeEvent

SpecHistory == Init /\ [][NextHistory]_vars

(* The history query next to a sampler that alerts in every tick and whose
   commit can fail *)
FrameTick ==
    TickWith({"none", "store_commit"}, GpuReadings \ {GpuNormal}, {GpuNormal},
             {Res}, {0})

NextFrame == FrameTick \/ LoadData \/ fetchall \/ DismissDialog \/ closeEvent

SpecFrame == Init /\ [][NextFrame]_vars

(* The indicators after one tick, over every combination of readings around
   the thresholds *)
SeverityTick ==
    /\ ticks = 0
    /\ TickOf({"none"}, {GpuNormal}, SeverityGrid, LoadGrid, LoadGrid, {Res}, {0})

NextSeverity == SeverityTick \/ closeEvent

SpecSeverity == Init /\ [][NextSeverity]_vars

(* The store and the history query under a wall clock that can be set back *)
ClockTick == TickWith({"none"}, {GpuNormal}, {GpuNormal}, WallGaps, {0})

NextClock == ClockTick \/ LoadData \/ fetchall \/ DismissDialog \/ closeEvent

SpecClock == Init /\ [][NextClock]_vars

---------------------------------------------------------------------------
(* Properties *)

\* a step that is one delivery of the timer
IsTick == ticks' = ticks + 1
\* a step that is one "Load Data" click
IsQuery == queries' = queries + 1

Critical(util, temp) == util > 90 \/ temp > 80

\* C1: a tick in which a provider read raises adds no row to the store:
\* the committed table is unchanged and the open transaction gains nothing.
C1_NoPartialPersist ==
    [][ (IsTick /\ last'.fault \in ReadFaults)
          => (resource_usage' = resource_usage /\ pending' \in {pending, <<>>}) ]_vars

\* a read failed in the latest tick while rows of earlier ticks are stored
C1_Witness ==
    /\ last.fault \in ReadFaults
    /\ ok_ticks >= 1
    /\ Len(resource_usage) >= ok_ticks

\* C2: while the monitor runs, time_stamps never holds more than max_points
\* entries.
C2_WindowBounded ==
    status = "Running" => Len(time_stamps) <= max_points

\* C3: while the monitor runs, the four window lists have the same length.
C3_WindowAligned ==
    status = "Running" =>
        /\ Len(gpu_usage_data) = Len(time_stamps)
        /\ Len(cpu_usage_data) = Len(time_stamps)
        /\ Len(ram_usage_data) = Len(time_stamps)

\* C4: a tick adds exactly one alert when the reading get_gpu_metrics took
\* has util > 90 or temp > 80, and none otherwise (none either when that
\* read raised); nothing is deduplicated.
C4_OneAlertPerCriticalTick ==
    [][ IsTick =>
          Len(notifications_text') = Len(notifications_text) +
              (IF last'.g1 # NoReading /\ Critical(last'.g1.util, last'.g1.temp)
               THEN 1 ELSE 0) ]_vars

\* consecutive critical ticks, one alert each
C4_Witness ==
    /\ ticks >= 2
    /\ Len(notifications_text) = ticks

\* C5: while the monitor runs, every alert has exactly one stored row with
\* its timestamp whose GPU values are critical.
C5_AlertHasSample ==
    status = "Running" =>
        \A i \in 1..Len(notifications_text) :
            Cardinality({ j \in 1..Len(resource_usage) :
                /\ resource_usage[j].timestamp = notifications_text[i].time
                /\ Critical(resource_usage[j].gpu_util, resource_usage[j].gpu_temp) }) = 1

\* C6: in a tick where one provider's read raises and the others would
\* succeed, the values of the others are still appended to their lists.
C6_IndependentReads ==
    [][ IsTick =>
          /\ last'.fault \in GpuFaults =>
                (appended'.cpu # appended.cpu /\ appended'.ram # appended.ram)
          /\ last'.fault = "cpu_read" =>
                (appended'.gpu # appended.gpu /\ appended'.ram # appended.ram)
          /\ last'.fault = "ram_read" =>
                (appended'.gpu # appended.gpu /\ appended'.cpu # appended.cpu) ]_vars

\* C7: after a tick in which a provider read raises the sampler is still
\* running.
C7_ReadFailureNotTerminal ==
    [][ (IsTick /\ last'.fault \in ReadFaults) => status' = "Running" ]_vars

\* C8: a tick in which the store write raises shows the failure to the user
\* and leaves the sampler running.
C8_StoreFailureReported ==
    [][ (IsTick /\ last'.fault \in StoreFaults)
          => (dialogs' # dialogs /\ status' = "Running") ]_vars

\* the last m entries of h, by index
Suffix(h, m) == [i \in 1..m |-> h[Len(h) - m + i]]

Min(a, b) == IF a <= b THEN a ELSE b

\* C9: after n ticks that all ran to the end, each window list is the last
\* min(n, max_points) values appended to it, in append order.
C9_Fifo ==
    ticks = ok_ticks =>
        LET m == Min(ok_ticks, max_points)
        IN  /\ Len(appended.ts) = ok_ticks
            /\ time_stamps = Suffix(appended.ts, m)
            /\ gpu_usage_data = Suffix(appended.gpu, m)
            /\ cpu_usage_data = Suffix(appended.cpu, m)
            /\ ram_usage_data = Suffix(appended.ram, m)

\* more successful ticks than the window holds: the oldest entry is gone
C9_Witness ==
    /\ ticks = ok_ticks
    /\ ok_ticks > max_points
    /\ time_stamps[1] = appended.ts[ok_ticks - max_points + 1]

\* the second a sample was stamped with lies within the queried range
Covered(smp, start, end) == start <= smp.t \div Res /\ smp.t \div Res <= end

Ascending(rows) ==
    \A i, j \in 1..Len(rows) :
        i < j => strptime(rows[i].timestamp) <= strptime(rows[j].timestamp)

\* C11: a range query returns exactly the stored rows whose second lies in
\* [start, end], in ascending timestamp order.
C11_RangeQueryAscending ==
    [][ IsQuery =>
          LET InRange(r) == /\ start_date_edit' <= strptime(r.timestamp)
                            /\ strptime(r.timestamp) <= end_date_edit'
              hit == SelectSeq(resource_usage, InRange)
          IN  /\ Len(hist_rows') = Len(hit)
              /\ \A k \in 1..Len(hit) :
                    \E j \in 1..Len(hist_rows') :
                        hist_rows'[j].timestamp = hit[k].timestamp
              /\ Ascending(hist_rows') ]_vars

\* C12: a range query with start after end returns no rows and raises
\* nothing, whatever the store holds: it shows "No Data Available" and the
\* application keeps running.
C12_InvertedRangeEmpty ==
    [][ (IsQuery /\ start_date_edit' > end_date_edit') =>
          /\ hist_rows' = <<>>
          /\ status' = "Running"
          /\ dialogs' = Append(dialogs, "No Data Available")
          /\ history_plot' = history_plot ]_vars

\* an inverted range was queried over a store that holds a row between the
\* two bounds
C12_Witness ==
    /\ queries >= 1
    /\ start_date_edit > end_date_edit
    /\ hist_rows = <<>>
    /\ \E i \in 1..Len(resource_usage) :
          /\ end_date_edit <= strptime(resource_usage[i].timestamp)
          /\ strptime(resource_usage[i].timestamp) <= start_date_edit

\* the readings of the latest tick that ran to its end
Shown == samples[Len(samples)]

\* C13: the GPU indicator is Critical (red) iff util > 90 or temp > 80,
\* otherwise Warning (yellow) iff util > 70 or temp > 70, otherwise Normal
\* (green); a reading equal to a threshold does not reach the higher level.
C13_GpuSeverity ==
    ok_ticks >= 1 =>
        LET crit == Shown.gpu_util > 90 \/ Shown.gpu_temp > 80
            warn == Shown.gpu_util > 70 \/ Shown.gpu_temp > 70
        IN  /\ indicators.gpu = "red" <=> crit
            /\ indicators.gpu = "yellow" <=> (~crit /\ warn)
            /\ indicators.gpu = "green" <=> (~crit /\ ~warn)

\* both readings exactly on the upper thresholds: Warning, not Critical
C13_Witness ==
    /\ ok_ticks >= 1
    /\ Shown.gpu_util = 90
    /\ Shown.gpu_temp = 80
    /\ indicators.gpu = "yellow"

\* the level the claim gives a utilisation of its own
LoadLevel(util) ==
    IF util > 90 THEN "red" ELSE IF util > 70 /\ util <= 90 THEN "yellow" ELSE "green"

\* C14: the CPU indicator depends on the CPU utilisation alone and the RAM
\* indicator on the RAM utilisation alone: Critical iff util > 90, Warning
\* iff 70 < util <= 90, Normal iff util <= 70, whatever the GPU reading and
\* the other utilisation are.
C14_CpuRamSeverity ==
    ok_ticks >= 1 =>
        /\ indicators.cpu = LoadLevel(Shown.cpu_util)
        /\ indicators.ram = LoadLevel(Shown.ram_util)
        /\ indicators.cpu = "green" <=> Shown.cpu_util <= 70
        /\ indicators.ram = "green" <=> Shown.ram_util <= 70

\* CPU on its upper threshold while RAM and the GPU are beyond theirs: the
\* CPU indicator alone stays at Warning
C14_Witness ==
    /\ ok_ticks >= 1
    /\ Shown.cpu_util = 90
    /\ Shown.ram_util = 91
    /\ Shown.gpu_util = 91
    /\ indicators.cpu = "yellow"
    /\ indicators.ram = "red"
    /\ indicators.gpu = "red"

\* C15: in every reachable state the timestamps of the stored rows are
\* non-decreasing in the order the rows were appended.
C15_TimestampsMonotone == Ascending(resource_usage)

\* C16: at most one sampling cycle is in progress: a timer tick never
\* starts update_metrics while a history query is mid-way, a query that
\* shows a dialog included.
C16_NoTickDuringQuery == [][ IsTick => hist_pc = "idle" ]_vars

\* C16 (amended): a timer tick never starts update_metrics while a history
\* query is between its SELECT and its fetchall; it can start while the
\* query shows its message box, and then the cursor holds nothing of the
\* query and the tick leaves the fetched rows, the open box and the history
\* plot as they are.
C16_TickOnlyFromEventLoop ==
    [][ IsTick => /\ hist_pc \in {"idle", "nodata_dialog", "partial_dialog"}
                  /\ cursor = <<>>
                  /\ hist_pc' = hist_pc
                  /\ hist_rows' = hist_rows
                  /\ history_plot' = history_plot ]_vars

\* a tick ran to its end while the message box of a query was open
C16_Witness ==
    /\ ticks >= 1
    /\ last.fault = "none"
    /\ last.during \in {"nodata_dialog", "partial_dialog"}

\* the stored rows, committed or not, whose second lies in [start, end]
InRangeRows(start, end) ==
    LET Hit(r) == start <= strptime(r.timestamp) /\ strptime(r.timestamp) <= end
    IN  SelectSeq(Visible, Hit)

\* C17: a history query that interleaves with a tick's insert on the shared
\* connection and cursor returns whole rows of the store as it is before or
\* after the insert: what fetchall returns is the range query over the store
\* at that moment, and a tick that inserts while the query's message box is
\* open changes neither the fetched rows nor what is plotted from them.
C17_QueryAtomic ==
    [][ /\ IsQuery =>
             LET hit == InRangeRows(start_date_edit, end_date_edit)
             IN  /\ Len(hist_rows') = Len(hit)
                 /\ \A i \in 1..Len(hit) :
                       /\ hist_rows'[i].timestamp = hit[i].timestamp
                       /\ hist_rows'[i].gpu_util = hit[i].gpu_util
                       /\ hist_rows'[i].cpu_util = hit[i].cpu_util
                       /\ hist_rows'[i].ram_util = hit[i].ram_util
        /\ IsTick => hist_rows' = hist_rows
        /\ (hist_pc = "partial_dialog" /\ hist_pc' = "idle") =>
             /\ Len(history_plot'.timestamps) = Len(hist_rows)
             /\ \A i \in 1..Len(hist_rows) :
                   /\ history_plot'.timestamps[i] = strptime(hist_rows[i].timestamp)
                   /\ history_plot'.gpu_data[i] = hist_rows[i].gpu_util
                   /\ history_plot'.cpu_data[i] = hist_rows[i].cpu_util
                   /\ history_plot'.ram_data[i] = hist_rows[i].ram_util ]_vars

\* a tick stored a row of the queried range while the "Partial Data" box was
\* open; the plot shows the rows from before that insert
C17_Witness ==
    /\ hist_pc = "idle"
    /\ dialogs = <<"Partial Data">>
    /\ last.fault = "none"
    /\ last.during = "partial_dialog"
    /\ Len(history_plot.timestamps) >= 1
    /\ Len(history_plot.timestamps)
          < Len(InRangeRows(start_date_edit, end_date_edit))

\* C18: the connection is closed once, by closeEvent, and after that no
\* sampling tick and no query performs an operation on the store: no tick
\* gets as far as its INSERT and no SELECT is run.
C18_ClosedStoreUntouched ==
    [][ status = "Closed" =>
          /\ ~(IsTick /\ last'.fault \notin ReadFaults)
          /\ cursor' = cursor
          /\ ~IsQuery ]_vars

\* C19: a completed range query shows the "Partial Data" warning whenever
\* it returns fewer rows than end - start seconds, a query that returns no
\* row for a non-empty range included; the rows are still delivered.
C19_PartialWarningAlways ==
    [][ (IsQuery /\ Len(hist_rows') < end_date_edit - start_date_edit) =>
          dialogs' = Append(dialogs, "Partial Data") ]_vars

\* C19 (amended): a completed range query shows the "Partial Data" warning
\* exactly when it returns at least one row and fewer rows than end - start
\* seconds, and once the warning is closed the returned rows are plotted; a
\* query that returns no row shows "No Data Available" instead and plots
\* nothing.
C19_PartialWarning ==
    [][ /\ IsQuery =>
             LET n == Len(hist_rows')
                 short == n < end_date_edit - start_date_edit
             IN  /\ (n >= 1 /\ short) =>
                       /\ dialogs' = Append(dialogs, "Partial Data")
                       /\ hist_pc' = "partial_dialog"
                 /\ (n >= 1 /\ ~short) =>
                       /\ dialogs' = dialogs
                       /\ Len(history_plot'.timestamps) = n
                 /\ n = 0 =>
                       /\ dialogs' = Append(dialogs, "No Data Available")
                       /\ history_plot' = history_plot
        /\ (hist_pc = "partial_dialog" /\ hist_pc' = "idle") =>
             /\ Len(hist_rows) >= 1
             /\ Len(history_plot'.timestamps) = Len(hist_rows)
        /\ (hist_pc = "nodata_dialog" /\ hist_pc' = "idle") =>
             history_plot' = history_plot ]_vars

\* the warning was shown for a range of two seconds with one row, and the
\* row is plotted
C19_Witness ==
    /\ dialogs = <<"Partial Data">>
    /\ hist_pc = "idle"
    /\ end_date_edit - start_date_edit = 2
    /\ Len(hist_rows) = 1
    /\ Len(history_plot.timestamps) = 1

\* C20: in every cycle that persists a sample whose stored GPU values are
\* Critical, an alert is emitted in that same cycle and the GPU indicator
\* shows Critical: alert, indicator and stored row agree on one reading.
C20_NoMissedAlert ==
    [][ (IsTick /\ Len(resource_usage') = Len(resource_usage) + 1) =>
          LET row == resource_usage'[Len(resource_usage')]
          IN  Critical(row.gpu_util, row.gpu_temp) =>
                /\ Len(notifications_text') = Len(notifications_text) + 1
                /\ indicators'.gpu = "red" ]_vars

\* a step of load_historical_data: the SELECT, the fetch with its message
\* box or plot, the return after the box is closed
IsHistoryStep == hist_pc' # hist_pc

\* C21: a history query has no effect on the sampling state: whatever the
\* range and the outcome (rows, no rows, partial data), no step of it changes
\* the stored rows, committed or not, the four window lists or the alert log.
C21_QueryFrame ==
    [][ IsHistoryStep =>
          /\ resource_usage' = resource_usage
          /\ pending' = pending
          /\ time_stamps' = time_stamps
          /\ gpu_usage_data' = gpu_usage_data
          /\ cpu_usage_data' = cpu_usage_data
          /\ ram_usage_data' = ram_usage_data
          /\ notifications_text' = notifications_text ]_vars

\* a query ran to its end and plotted rows while the store held committed
\* rows and a row of an open transaction, the window lists and the alert
\* log were not empty
C21_Witness ==
    /\ queries >= 1
    /\ hist_pc = "idle"
    /\ Len(hist_rows) >= 1
    /\ resource_usage # <<>>
    /\ pending # <<>>
    /\ time_stamps # <<>>
    /\ notifications_text # <<>>

\* C22: every tick in which all reads and the store write succeed appends
\* exactly one row to the stored rows and one new point to each window
\* list, and leaves the rows stored before as they were; so over any step
\* the stored rows grow by as many as the fully successful ticks do.
C22_OneRowPerSuccessfulTick ==
    [][ /\ (IsTick /\ last'.fault = "none") =>
             LET n == Len(resource_usage)
             IN  /\ Len(resource_usage') = n + 1
                 /\ \A i \in 1..n : resource_usage'[i] = resource_usage[i]
                 /\ time_stamps'[Len(time_stamps')] = appended'.ts[Len(appended'.ts)]
                 /\ gpu_usage_data'[Len(gpu_usage_data')] = resource_usage'[n + 1].gpu_util
                 /\ cpu_usage_data'[Len(cpu_usage_data')] = resource_usage'[n + 1].cpu_util
                 /\ ram_usage_data'[Len(ram_usage_data')] = resource_usage'[n + 1].ram_util
                 /\ Len(appended'.ts) = Len(appended.ts) + 1
                 /\ Len(appended'.gpu) = Len(appended.gpu) + 1
                 /\ Len(appended'.cpu) = Len(appended.cpu) + 1
                 /\ Len(appended'.ram) = Len(appended.ram) + 1
        /\ Len(resource_usage') - Len(resource_usage) = ok_ticks' - ok_ticks ]_vars

====
